---- MODULE Spec2Model ----
(***************************************************************************)
(* Request-parameter encoding of ollama-rs, generation/parameters.rs:      *)
(* FormatType (serialize / deserialize), JsonStructure::new, KeepAlive     *)
(* (serialize) and TimeUnit::to_symbol.                                    *)
(*                                                                         *)
(* Representation.  A Rust String / &str is a sequence of one-character    *)
(* strings.  A value of the serde data model (what a Serializer receives   *)
(* and a Deserializer hands out) is a tagged record:                       *)
(*     [t |-> "int", n |-> i]      an integer                              *)
(*     [t |-> "str", s |-> chars]  a string                                *)
(*     [t |-> "arr", a |-> seq]    a sequence                              *)
(*     [t |-> "map", m |-> f]      a map, f a function from keys (strings) *)
(*                                 to values                               *)
(* A Result is [ok |-> TRUE, val |-> v] or [ok |-> FALSE, err |-> e].      *)
(***************************************************************************)
EXTENDS Integers, Sequences, FiniteSets, TLC

VARIABLES op, arg, res, origin

vars == <<op, arg, res, origin>>

(* ------------------------------ bounds -------------------------------- *)

\* Until.time ranges over 0..MaxTime and the values of SampleTimes.
MaxTime == 12

\* Every text over ShortChars of length at most MaxLen is a decoder input.
MaxLen == 3

(* ------------------------------ values -------------------------------- *)

None == [t |-> "none"]

Ok(v) == [ok |-> TRUE, val |-> v]

Err(e) == [ok |-> FALSE, err |-> e]

JInt(i) == [t |-> "int", n |-> i]

JStr(s) == [t |-> "str", s |-> s]

JArr(a) == [t |-> "arr", a |-> a]

JMap(f) == [t |-> "map", m |-> f]

EmptyMap == <<>>

\* One key/value entry of a map.
Entry(k, v) == [x \in {k} |-> v]

\* Map insertion: an existing key is overwritten.
Insert(f, k, v) == [x \in (DOMAIN f) \cup {k} |-> IF x = k THEN v ELSE f[x]]

(* ------------------------------ TimeUnit ------------------------------ *)

TimeUnit == {"Seconds", "Minutes", "Hours"}

\* A bug: hours abbreviated "h".
to_symbol_hours_h(unit) ==
    CASE unit = "Seconds" -> <<"s">>
      [] unit = "Minutes" -> <<"m">>
      [] unit = "Hours"   -> <<"h">>

\* A bug: minutes given the symbol of seconds.
to_symbol_minutes_s(unit) ==
    CASE unit = "Seconds" -> <<"s">>
      [] unit = "Minutes" -> <<"s">>
      [] unit = "Hours"   -> <<"h", "r">>

to_symbol(unit) ==
    CASE unit = "Seconds" -> <<"s">>
      [] unit = "Minutes" -> <<"m">>
      [] unit = "Hours"   -> <<"h", "r">>

(* ------------------------------ KeepAlive ----------------------------- *)

SampleTimes == {30, 100, 3600, 86400}

Times == (0 .. MaxTime) \cup SampleTimes

Indefinitely == [t |-> "Indefinitely"]

UnloadOnCompletion == [t |-> "UnloadOnCompletion"]

Until(time, unit) == [t |-> "Until", time |-> time, unit |-> unit]

KeepAlive ==
    {Indefinitely, UnloadOnCompletion}
        \cup {Until(time, unit) : time \in Times, unit \in TimeUnit}

DigitChar(d) ==
    CASE d = 0 -> "0" [] d = 1 -> "1" [] d = 2 -> "2" [] d = 3 -> "3"
      [] d = 4 -> "4" [] d = 5 -> "5" [] d = 6 -> "6" [] d = 7 -> "7"
      [] d = 8 -> "8" [] d = 9 -> "9"

\* u64::to_string: the decimal digits, most significant first.
RECURSIVE to_string(_)
to_string(n) ==
    IF n < 10 THEN <<DigitChar(n)>>
    ELSE Append(to_string(n \div 10), DigitChar(n % 10))

(* ------------------------------ Serializer ---------------------------- *)

\* The serializer S the caller passes in.  "Value" builds the value it is
\* given (serde_json's Value serializer); "Broken" is a sink whose every
\* call returns S::Error (a writer that fails).
Serializers == {"Value", "Broken"}

SinkError == [kind |-> "serializer"]

serialize_str(serializer, s) ==
    IF serializer = "Broken" THEN Err(SinkError) ELSE Ok(JStr(s))

serialize_i8(serializer, i) ==
    IF serializer = "Broken" THEN Err(SinkError) ELSE Ok(JInt(i))

serialize_map(serializer, f) ==
    IF serializer = "Broken" THEN Err(SinkError) ELSE Ok(JMap(f))

\* A bug: the sentinels written as strings.
KeepAliveSerialize_sentinel_strings(self, serializer) ==
    CASE self.t = "Indefinitely"       -> serialize_str(serializer, <<"-", "1">>)
      [] self.t = "UnloadOnCompletion" -> serialize_str(serializer, <<"0">>)
      [] self.t = "Until" ->
            serialize_str(serializer, to_string(self.time) \o to_symbol(self.unit))

\* A bug: a zero duration refused by the encoder.
KeepAliveSerialize_rejects_zero(self, serializer) ==
    CASE self.t = "Indefinitely"       -> serialize_i8(serializer, -1)
      [] self.t = "UnloadOnCompletion" -> serialize_i8(serializer, 0)
      [] self.t = "Until" ->
            IF self.time = 0 THEN Err([kind |-> "custom"])
            ELSE serialize_str(serializer, to_string(self.time) \o to_symbol(self.unit))

KeepAliveSerialize(self, serializer) ==
    CASE self.t = "Indefinitely"       -> serialize_i8(serializer, -1)
      [] self.t = "UnloadOnCompletion" -> serialize_i8(serializer, 0)
      [] self.t = "Until" ->
            LET s0 == <<>>
                s1 == s0 \o to_string(self.time)
                s2 == s1 \o to_symbol(self.unit)
            IN  serialize_str(serializer, s2)

(* ------------------------------ JSON text ----------------------------- *)

JNull == [t |-> "null"]

JBool(b) == [t |-> "bool", b |-> b]

\* The characters of the texts handed to the decoder.  Over these no key is
\* a keyword of schemars' RootSchema / SchemaObject, so every member of a
\* parsed object lands in the schema's `extensions` map, and the tokens
\* true, false, [ and - never start a value.
WireChars == {"{", "}", "\"", ":", ",", " ", "0", "1", "j", "s", "o", "n", "u", "l"}

Digits == {"0", "1", "2", "3", "4", "5", "6", "7", "8", "9"}

DigitValue(c) ==
    CASE c = "0" -> 0 [] c = "1" -> 1 [] c = "2" -> 2 [] c = "3" -> 3
      [] c = "4" -> 4 [] c = "5" -> 5 [] c = "6" -> 6 [] c = "7" -> 7
      [] c = "8" -> 8 [] c = "9" -> 9

\* A parser step: the value read and the position after it, or the
\* diagnostic (serde_json's ErrorCode).
Parsed(v, pos) == [ok |-> TRUE, val |-> v, pos |-> pos]

Diag(code) == [ok |-> FALSE, err |-> [code |-> code]]

\* parse_whitespace: the first position at or after i that holds no blank.
RECURSIVE SkipWs(_, _)
SkipWs(s, i) ==
    IF i <= Len(s) /\ s[i] = " " THEN SkipWs(s, i + 1) ELSE i

\* The position of the quote closing the string whose contents start at i,
\* or 0 when the text ends first.
RECURSIVE ClosingQuote(_, _)
ClosingQuote(s, i) ==
    IF i > Len(s) THEN 0
    ELSE IF s[i] = "\"" THEN i
    ELSE ClosingQuote(s, i + 1)

\* parse_str, the opening quote at i.
ParseStr(s, i) ==
    LET j == ClosingQuote(s, i + 1)
    IN  IF j = 0 THEN Diag("EofWhileParsingString")
        ELSE Parsed(SubSeq(s, i + 1, j - 1), j + 1)

RECURSIVE ParseDigits(_, _, _)
ParseDigits(s, i, acc) ==
    IF i <= Len(s) /\ s[i] \in Digits
    THEN ParseDigits(s, i + 1, acc * 10 + DigitValue(s[i]))
    ELSE Parsed([t |-> "int", n |-> acc], i)

\* parse_integer, a digit at i: a leading 0 may not be followed by a digit.
ParseNumber(s, i) ==
    IF s[i] = "0"
    THEN IF i + 1 <= Len(s) /\ s[i + 1] \in Digits
         THEN Diag("InvalidNumber")
         ELSE Parsed([t |-> "int", n |-> 0], i + 1)
    ELSE ParseDigits(s, i, 0)

\* parse_ident(b"ull"), the n at i.
ParseNull(s, i) ==
    LET rest == <<"u", "l", "l">>
        bad == {k \in 1 .. 3 : i + k > Len(s) \/ s[i + k] # rest[k]}
        first == CHOOSE k \in bad : \A k2 \in bad : k <= k2
    IN  IF bad = {} THEN Parsed(JNull, i + 4)
        ELSE IF i + first > Len(s) THEN Diag("EofWhileParsingValue")
        ELSE Diag("ExpectedSomeIdent")

RECURSIVE ParseValue(_, _)
RECURSIVE ParseMembers(_, _, _, _)

\* One member, its key expected at k, then the rest of the object.
ParseMember(s, k, acc) ==
    IF k > Len(s) THEN Diag("EofWhileParsingValue")
    ELSE IF s[k] = "}" THEN Diag("TrailingComma")
    ELSE IF s[k] # "\"" THEN Diag("KeyMustBeAString")
    ELSE LET key == ParseStr(s, k)
         IN  IF ~key.ok THEN key
             ELSE LET c == SkipWs(s, key.pos)
                  IN  IF c > Len(s) THEN Diag("EofWhileParsingObject")
                      ELSE IF s[c] # ":" THEN Diag("ExpectedColon")
                      ELSE LET v == ParseValue(s, c + 1)
                           IN  IF ~v.ok THEN v
                               ELSE ParseMembers(s, v.pos, FALSE,
                                        Insert(acc, key.val, v.val))

\* MapAccess::next_key_seed / next_value_seed until the closing brace; the
\* members read so far are in acc (a later duplicate key overwrites).
ParseMembers(s, i, first, acc) ==
    LET j == SkipWs(s, i)
    IN  IF j > Len(s) THEN Diag("EofWhileParsingObject")
        ELSE IF s[j] = "}" THEN Parsed([t |-> "map", m |-> acc], j + 1)
        ELSE IF s[j] = "," /\ ~first THEN ParseMember(s, SkipWs(s, j + 1), acc)
        ELSE IF first THEN ParseMember(s, j, acc)
        ELSE Diag("ExpectedObjectCommaOrEnd")

\* parse_whitespace, then the value that starts there.
ParseValue(s, i) ==
    LET j == SkipWs(s, i)
    IN  IF j > Len(s) THEN Diag("EofWhileParsingValue")
        ELSE IF s[j] = "{" THEN ParseMembers(s, j + 1, TRUE, EmptyMap)
        ELSE IF s[j] = "\"" THEN
            LET r == ParseStr(s, j)
            IN  IF r.ok THEN Parsed([t |-> "str", s |-> r.val], r.pos) ELSE r
        ELSE IF s[j] \in Digits THEN ParseNumber(s, j)
        ELSE IF s[j] = "n" THEN ParseNull(s, j)
        ELSE Diag("ExpectedSomeValue")

\* serde_json::from_str::<RootSchema>: the text must hold one JSON object
\* and nothing after it.  A RootSchema is held as the members of its
\* document (what it serializes to).
from_str_RootSchema(s) ==
    LET r == ParseValue(s, 1)
    IN  IF ~r.ok THEN Err(r.err)
        ELSE IF r.val.t # "map" THEN Err([code |-> "InvalidType"])
        ELSE IF SkipWs(s, r.pos) <= Len(s) THEN Err([code |-> "TrailingCharacters"])
        ELSE Ok(r.val.m)

(* ------------------------------ FormatType ---------------------------- *)

Json == [t |-> "Json"]

JsonStructure(schema) == [schema |-> schema]

StructuredJson(s) == [t |-> "StructuredJson", structure |-> s]

\* RootSchema::serialize: a struct with flattened members, written as a map.
RootSchemaSerialize(schema, serializer) == serialize_map(serializer, schema)

\* A bug: the literal in another case.
FormatTypeSerialize_upper(self, serializer) ==
    CASE self.t = "Json" -> serialize_str(serializer, <<"J", "S", "O", "N">>)
      [] self.t = "StructuredJson" ->
            RootSchemaSerialize(self.structure.schema, serializer)

\* A bug: the schema arm missing, every format written as "json".
FormatTypeSerialize_one_arm(self, serializer) ==
    serialize_str(serializer, <<"j", "s", "o", "n">>)

FormatTypeSerialize(self, serializer) ==
    CASE self.t = "Json" -> serialize_str(serializer, <<"j", "s", "o", "n">>)
      [] self.t = "StructuredJson" ->
            RootSchemaSerialize(self.structure.schema, serializer)

\* A bug: a value that is no string read as the empty string.
StringDeserialize_default(wire) ==
    IF wire.t = "str" THEN Ok(wire.s) ELSE Ok(<<>>)

\* String::deserialize: the wire value must be a string.
StringDeserialize(wire) ==
    IF wire.t = "str" THEN Ok(wire.s)
    ELSE Err([kind |-> "invalid_type", unexpected |-> wire.t])

\* serde::de::Error::custom: the diagnostic, as the decoder's own error.
Custom(diag) == [kind |-> "custom", diag |-> diag]

\* A bug: the parse diagnostic replaced by a fixed message.
FormatTypeDeserialize_drops_diag(wire) ==
    LET s == StringDeserialize(wire)
    IN  IF ~s.ok THEN Err(s.err)
        ELSE IF s.val = <<"j", "s", "o", "n">> THEN Ok(Json)
        ELSE LET schema == from_str_RootSchema(s.val)
             IN  IF ~schema.ok THEN Err(Custom([code |-> "InvalidSchema"]))
                 ELSE Ok(StructuredJson(JsonStructure(schema.val)))

\* A bug (or a repair): an embedded schema object accepted as it is.
FormatTypeDeserialize_any(wire) ==
    IF wire.t = "map" THEN Ok(StructuredJson(JsonStructure(wire.m)))
    ELSE LET s == StringDeserialize(wire)
         IN  IF ~s.ok THEN Err(s.err)
             ELSE IF s.val = <<"j", "s", "o", "n">> THEN Ok(Json)
             ELSE LET schema == from_str_RootSchema(s.val)
                  IN  IF ~schema.ok THEN Err(Custom(schema.err))
                      ELSE Ok(StructuredJson(JsonStructure(schema.val)))

FormatTypeDeserialize(wire) ==
    LET s == StringDeserialize(wire)
    IN  IF ~s.ok THEN Err(s.err)
        ELSE IF s.val = <<"j", "s", "o", "n">> THEN Ok(Json)
        ELSE LET schema == from_str_RootSchema(s.val)
             IN  IF ~schema.ok THEN Err(Custom(schema.err))
                 ELSE Ok(StructuredJson(JsonStructure(schema.val)))

(* ------------------------------ JsonStructure ------------------------- *)

\* The schema-describable types T.  "String" and "bool" are not
\* referenceable; "A" and "B" are structs deriving JsonSchema, whose fields
\* (declared in the order x, y) are of the types a TypeEnv gives them.  A
\* field of type "A" stands for A itself or Box<A>, which shares A's schema.
Prims == {"String", "bool"}

Names == {"A", "B"}

Fields == {"x", "y"}

FieldTypes == Prims \cup Names

StructDefs == UNION {[fs -> FieldTypes] : fs \in SUBSET Fields}

TypeEnvs == [Names -> StructDefs]

\* T::schema_name
schema_name(ty) ==
    CASE ty = "String" -> <<"S", "t", "r", "i", "n", "g">>
      [] ty = "bool"   -> <<"B", "o", "o", "l", "e", "a", "n">>
      [] OTHER         -> <<ty>>

FieldSeq(def) ==
    (IF "x" \in DOMAIN def THEN <<"x">> ELSE <<>>)
        \o (IF "y" \in DOMAIN def THEN <<"y">> ELSE <<>>)

K_schema == <<"$", "s", "c", "h", "e", "m", "a">>

K_title == <<"t", "i", "t", "l", "e">>

K_type == <<"t", "y", "p", "e">>

K_properties == <<"p", "r", "o", "p", "e", "r", "t", "i", "e", "s">>

K_required == <<"r", "e", "q", "u", "i", "r", "e", "d">>

K_definitions == <<"d", "e", "f", "i", "n", "i", "t", "i", "o", "n", "s">>

K_ref == <<"$", "r", "e", "f">>

\* SchemaSettings::draft07()
draft07 ==
    [ inline_subschemas |-> FALSE,
      definitions_path  |-> <<"#", "/", "d", "e", "f", "i", "n", "i", "t", "i", "o", "n", "s", "/">>,
      meta_schema       |-> <<"h", "t", "t", "p", ":", "/", "/", "j", "s", "o", "n", "-", "s", "c", "h", "e", "m", "a", ".", "o", "r", "g", "/", "d", "r", "a", "f", "t", "-", "0", "7", "/", "s", "c", "h", "e", "m", "a", "#">> ]

\* <String as JsonSchema>::json_schema, <bool as JsonSchema>::json_schema
PrimSchema(ty) ==
    CASE ty = "String" -> Entry(K_type, JStr(<<"s", "t", "r", "i", "n", "g">>))
      [] ty = "bool"   -> Entry(K_type, JStr(<<"b", "o", "o", "l", "e", "a", "n">>))

\* Schema::new_ref
new_ref(reference) == Entry(K_ref, JStr(reference))

\* The schema a derived struct builds from the schemas of its fields: every
\* field is required; an object validation with no property is not written.
StructSchema(fields, props) ==
    IF fields = <<>> THEN Entry(K_type, JStr(<<"o", "b", "j", "e", "c", "t">>))
    ELSE [k \in {K_type, K_properties, K_required} |->
            CASE k = K_type       -> JStr(<<"o", "b", "j", "e", "c", "t">>)
              [] k = K_properties -> JMap(props)
              [] k = K_required   -> JArr([i \in DOMAIN fields |-> JStr(<<fields[i]>>)])]

RECURSIVE subschema_for(_, _, _, _, _)
RECURSIVE json_schema_internal(_, _, _, _, _)
RECURSIVE StructFields(_, _, _, _, _, _, _)

\* SchemaGenerator::subschema_for::<ty>, the generator holding the ids in
\* `pending` and the definitions `defs`: the schema and the definitions
\* after the call.  A referenceable type is written in place unless it is
\* being generated already; then it becomes a $ref into the definitions.
subschema_for(env, settings, ty, pending, defs) ==
    LET return_ref == /\ ty \in Names
                      /\ (~settings.inline_subschemas \/ ty \in pending)
        name == schema_name(ty)
        reference == settings.definitions_path \o name
    IN  IF ~return_ref THEN json_schema_internal(env, settings, ty, pending, defs)
        ELSE IF name \in DOMAIN defs
        THEN [schema |-> new_ref(reference), defs |-> defs]
        ELSE LET dummy == Insert(defs, name, JBool(FALSE))
                 r == json_schema_internal(env, settings, ty, pending, dummy)
             IN  [schema |-> new_ref(reference),
                  defs |-> Insert(r.defs, name, JMap(r.schema))]

\* The fields of struct ty from the i-th on, in declaration order.
StructFields(env, settings, ty, i, pending, defs, props) ==
    LET fields == FieldSeq(env[ty])
    IN  IF i > Len(fields) THEN [props |-> props, defs |-> defs]
        ELSE LET r == subschema_for(env, settings, env[ty][fields[i]], pending, defs)
             IN  StructFields(env, settings, ty, i + 1, pending, r.defs,
                              Insert(props, <<fields[i]>>, JMap(r.schema)))

\* SchemaGenerator::json_schema_internal::<ty>: ty is pending while its
\* own json_schema runs.
json_schema_internal(env, settings, ty, pending, defs) ==
    IF ty \in Prims THEN [schema |-> PrimSchema(ty), defs |-> defs]
    ELSE LET r == StructFields(env, settings, ty, 1, pending \cup {ty}, defs, EmptyMap)
         IN  [schema |-> StructSchema(FieldSeq(env[ty]), r.props), defs |-> r.defs]

\* SchemaGenerator::into_root_schema_for::<ty>: the schema of ty with its
\* title and meta-schema, and the definitions collected on the way.
into_root_schema_for(env, settings, ty) ==
    LET r == json_schema_internal(env, settings, ty, {}, EmptyMap)
        titled == Insert(r.schema, K_title, JStr(schema_name(ty)))
        root == Insert(titled, K_schema, JStr(settings.meta_schema))
    IN  IF r.defs = EmptyMap THEN root
        ELSE Insert(root, K_definitions, JMap(r.defs))

JsonStructureNew(env, ty) ==
    LET settings == [draft07 EXCEPT !.inline_subschemas = TRUE]
        schema == into_root_schema_for(env, settings, ty)
    IN  JsonStructure(schema)

(* ------------------------------ machine ------------------------------- *)

\* The texts over ShortChars of length at most MaxLen.
ShortChars == {"{", "}", "\"", ":", ",", " ", "1", "j"}

ShortTexts == UNION {[1 .. n -> ShortChars] : n \in 0 .. MaxLen}

SampleTexts ==
    { <<"j", "s", "o", "n">>,
      <<" ", "j", "s", "o", "n">>,
      <<"j", "s", "o", "n", " ">>,
      <<"\"", "j", "s", "o", "n", "\"">>,
      <<"n", "u", "l", "l">>,
      <<"1", "0">>,
      <<"{", "\"", "j", "\"", ":", "1", "}">>,
      <<"{", "\"", "j", "\"", ":", "1", ",", "\"", "s", "\"", ":", "\"", "o", "n", "\"", "}">>,
      <<"{", "\"", "j", "\"", ":", "{", "\"", "o", "\"", ":", "0", "}", "}">>,
      <<"{", "\"", "j", "\"", ":", "1", ",", "\"", "j", "\"", ":", "0", "}">>,
      <<"{", "\"", "j", "\"", ":", "1", ",", "}">>,
      <<"{", "\"", "j", "\"", " ", "1", "}">>,
      <<"{", "\"", "j", "\"", ":", "0", "1", "}">>,
      <<"{", "\"", "j", "\"", ":", "1", "}", " ", "j">>,
      <<"{", "\"", "j", "\"", ":", "1", " ", "\"", "s", "\"", ":", "0", "}">>,
      <<"{", "\"", "j", "\"", ":", "n", "u", "l", "}">>,
      <<"{", "\"", "j", "s", "o", "n", "\"", ":", "\"", "j", "s", "o", "n", "\"", "}">>,
      <<"{", " ", "\"", "s", "\"", " ", ":", " ", "\"", "{", "}", "\"", " ", "}", " ">> }

Texts == ShortTexts \cup SampleTexts

\* The wire values handed to the decoder: strings, and values that are none.
Wires ==
    {JStr(s) : s \in Texts}
        \cup {JInt(-1), JInt(0), JNull, JBool(TRUE), JArr(<<>>), JMap(EmptyMap),
              JMap(Entry(K_type, JStr(<<"s", "t", "r", "i", "n", "g">>)))}

\* The calls a run starts with, each with its arguments.
Inputs ==
    [call : {"KeepAlive::serialize"}, self : KeepAlive, serializer : Serializers]
        \cup [call : {"FormatType::serialize"}, self : {Json}, serializer : Serializers]
        \cup [call : {"FormatType::deserialize"}, wire : Wires]
        \cup [call : {"JsonStructure::new"}, env : TypeEnvs, ty : FieldTypes]

Init ==
    /\ op = "init"
    /\ arg \in Inputs
    /\ res = None
    /\ origin = None

SerializeKeepAlive ==
    /\ op = "init"
    /\ arg.call = "KeepAlive::serialize"
    /\ op' = "KeepAlive::serialize"
    /\ res' = KeepAliveSerialize(arg.self, arg.serializer)
    /\ UNCHANGED <<arg, origin>>

NewJsonStructure ==
    /\ op = "init"
    /\ arg.call = "JsonStructure::new"
    /\ op' = "JsonStructure::new"
    /\ res' = JsonStructureNew(arg.env, arg.ty)
    /\ UNCHANGED <<arg, origin>>

SerializeJson ==
    /\ op = "init"
    /\ arg.call = "FormatType::serialize"
    /\ op' = "FormatType::serialize"
    /\ res' = FormatTypeSerialize(arg.self, arg.serializer)
    /\ UNCHANGED <<arg, origin>>

\* The structure just built, wrapped in StructuredJson and serialized.
SerializeStructured ==
    /\ op = "JsonStructure::new"
    /\ \E serializer \in Serializers :
        LET self == StructuredJson(res)
        IN  /\ op' = "FormatType::serialize"
            /\ arg' = [call |-> "FormatType::serialize", self |-> self,
                       serializer |-> serializer]
            /\ res' = FormatTypeSerialize(self, serializer)
            /\ origin' = None

DeserializeFormatType ==
    /\ op = "init"
    /\ arg.call = "FormatType::deserialize"
    /\ op' = "FormatType::deserialize"
    /\ res' = FormatTypeDeserialize(arg.wire)
    /\ UNCHANGED <<arg, origin>>

\* The value just decoded, serialized again.
SerializeDecoded ==
    /\ op = "FormatType::deserialize"
    /\ res.ok
    /\ \E serializer \in Serializers :
        /\ op' = "FormatType::serialize"
        /\ arg' = [call |-> "FormatType::serialize", self |-> res.val,
                   serializer |-> serializer]
        /\ res' = FormatTypeSerialize(res.val, serializer)
        /\ origin' = None

\* Encode-then-decode: the wire value just produced, handed to the decoder;
\* origin keeps the value that was encoded.
DeserializeEncoded ==
    /\ op = "FormatType::serialize"
    /\ res.ok
    /\ op' = "FormatType::deserialize"
    /\ arg' = [call |-> "FormatType::deserialize", wire |-> res.val]
    /\ res' = FormatTypeDeserialize(res.val)
    /\ origin' = arg.self

Next ==
    \/ SerializeKeepAlive
    \/ NewJsonStructure
    \/ SerializeJson
    \/ SerializeStructured
    \/ DeserializeFormatType
    \/ SerializeDecoded
    \/ DeserializeEncoded

Spec == Init /\ [][Next]_vars

(* ------------------------------ claims -------------------------------- *)

IsKeepAliveSerialize == op = "KeepAlive::serialize"

IsFormatSerialize == op = "FormatType::serialize"

IsFormatDeserialize == op = "FormatType::deserialize"

\* The number a sequence of decimal digits denotes.
RECURSIVE DecimalValue(_)
DecimalValue(ds) ==
    IF ds = <<>> THEN 0
    ELSE 10 * DecimalValue(SubSeq(ds, 1, Len(ds) - 1)) + DigitValue(ds[Len(ds)])

\* s is the decimal representation of n: digits only, no leading zero
\* except for "0" itself, denoting n.
IsDecimalOf(s, n) ==
    /\ Len(s) >= 1
    /\ \A i \in 1 .. Len(s) : s[i] \in Digits
    /\ (Len(s) > 1 => s[1] # "0")
    /\ DecimalValue(s) = n

\* The symbols the specification gives the units.
SpecSymbol(unit) ==
    CASE unit = "Seconds" -> <<"s">>
      [] unit = "Minutes" -> <<"m">>
      [] unit = "Hours"   -> <<"h", "r">>

\* C1: encoding Until{time: t, unit: u} yields a string, never an integer:
\* the decimal representation of t immediately followed by the symbol of u
\* (s, m, hr); 30 minutes is "30m" and 5 hours is "5hr".
C1_UntilIsDecimalThenSymbol ==
    (IsKeepAliveSerialize /\ arg.self.t = "Until") =>
        /\ arg.serializer = "Value" => res.ok
        /\ res.ok =>
            /\ res.val.t = "str"
            /\ LET s == res.val.s
                   sym == SpecSymbol(arg.self.unit)
                   d == Len(s) - Len(sym)
               IN  /\ d >= 1
                   /\ SubSeq(s, d + 1, Len(s)) = sym
                   /\ IsDecimalOf(SubSeq(s, 1, d), arg.self.time)
            /\ arg.self = Until(30, "Minutes") => res.val.s = <<"3", "0", "m">>
            /\ arg.self = Until(5, "Hours") => res.val.s = <<"5", "h", "r">>

C1_Witness ==
    /\ IsKeepAliveSerialize
    /\ arg.self = Until(30, "Minutes")
    /\ res = Ok(JStr(<<"3", "0", "m">>))

\* C2: encoding Indefinitely yields the integer -1 and encoding
\* UnloadOnCompletion yields the integer 0; neither is ever a string.
C2_SentinelsAreIntegers ==
    (IsKeepAliveSerialize /\ arg.self.t # "Until") =>
        /\ arg.serializer = "Value" => res.ok
        /\ res.ok =>
            /\ res.val.t = "int"
            /\ arg.self = Indefinitely => res.val.n = -1
            /\ arg.self = UnloadOnCompletion => res.val.n = 0

C2_Witness ==
    /\ IsKeepAliveSerialize
    /\ arg.self = Indefinitely
    /\ res = Ok([t |-> "int", n |-> -1])

\* C3: encoding FormatType::Json yields exactly the string "json", decoding
\* the string "json" yields FormatType::Json, and so encode-then-decode of
\* FormatType::Json gives FormatType::Json back.
C3_JsonRoundTrip ==
    /\ (IsFormatSerialize /\ arg.self = Json) =>
            /\ arg.serializer = "Value" => res.ok
            /\ res.ok => res.val = JStr(<<"j", "s", "o", "n">>)
    /\ (IsFormatDeserialize /\ arg.wire = JStr(<<"j", "s", "o", "n">>)) =>
            res = Ok(Json)
    /\ (IsFormatDeserialize /\ origin = Json) => res = Ok(origin)

C3_Witness ==
    /\ IsFormatDeserialize
    /\ origin = Json
    /\ arg.wire = JStr(<<"j", "s", "o", "n">>)
    /\ res = Ok(Json)

\* C4: decoding a wire string other than "json": when its contents parse
\* as a schema root document the result is StructuredJson wrapping the
\* parsed schema; otherwise decoding fails with the schema-parse error that
\* carries the parser's diagnostic, and no FormatType is produced.
C4_NonJsonStringIsParsedAsSchema ==
    (IsFormatDeserialize /\ arg.wire.t = "str" /\ arg.wire.s # <<"j", "s", "o", "n">>) =>
        LET parsed == from_str_RootSchema(arg.wire.s)
        IN  /\ parsed.ok =>
                res = Ok([t |-> "StructuredJson", structure |-> [schema |-> parsed.val]])
            /\ ~parsed.ok =>
                res = Err([kind |-> "custom", diag |-> parsed.err])
            /\ arg.wire.s = <<"{", "\"", "j", "\"", ":", "1", "}">> =>
                res = Ok(StructuredJson(JsonStructure(Entry(<<"j">>, JInt(1)))))
            /\ arg.wire.s = <<"{", "\"", "j", "\"", ":", "1", ",", "}">> =>
                res = Err([kind |-> "custom", diag |-> [code |-> "TrailingComma"]])
            /\ arg.wire.s = <<"\"", "j", "s", "o", "n", "\"">> =>
                res = Err([kind |-> "custom", diag |-> [code |-> "InvalidType"]])

C4_Witness ==
    /\ IsFormatDeserialize
    /\ arg.wire = JStr(<<"{", "\"", "j", "\"", ":", "1", ",", "}">>)
    /\ ~res.ok
    /\ res.err.kind = "custom"
    /\ res.err.diag.code = "TrailingComma"

\* The success case of C4 is reached as well.
C4_WitnessParsed ==
    /\ IsFormatDeserialize
    /\ arg.wire = JStr(<<"{", "\"", "j", "\"", ":", "1", "}">>)
    /\ res.ok
    /\ res.val.t = "StructuredJson"

\* C5: encoding StructuredJson(s) yields the schema document held by s as
\* an embedded map, never as a string; the wire value of a format is a
\* string only for FormatType::Json.
C5_StructuredIsEmbedded ==
    (IsFormatSerialize /\ res.ok) =>
        /\ res.val.t = "str" <=> arg.self = Json
        /\ arg.self.t = "StructuredJson" =>
            /\ res.val.t = "map"
            /\ res.val.m = arg.self.structure.schema

C5_Witness ==
    /\ IsFormatSerialize
    /\ arg.self.t = "StructuredJson"
    /\ res.ok
    /\ res.val.t = "map"
    /\ K_properties \in DOMAIN res.val.m
    /\ res.val.m[K_properties].t = "map"

\* Whether a JSON value holds a $ref member anywhere.
RECURSIVE HasRef(_)
HasRef(v) ==
    CASE v.t = "map" -> \/ K_ref \in DOMAIN v.m
                        \/ \E k \in DOMAIN v.m : HasRef(v.m[k])
      [] v.t = "arr" -> \E i \in DOMAIN v.a : HasRef(v.a[i])
      [] OTHER -> FALSE

\* C6: for every schema-describable type T the document JsonStructure::new
\* builds, and so the encoding of StructuredJson wrapping it, holds no $ref
\* anywhere: every nested sub-schema is inlined in place.
C6_ReferenceFree ==
    /\ op = "JsonStructure::new" => ~HasRef(JMap(res.schema))
    /\ (IsFormatSerialize /\ arg.self.t = "StructuredJson" /\ res.ok) => ~HasRef(res.val)

\* C7: encoding is total: every FormatType and every KeepAlive is given a
\* wire value, and an encoding fails only where the serializer it writes to
\* fails, never by an error of the encoder's own.
C7_EncodingIsTotal ==
    (IsFormatSerialize \/ IsKeepAliveSerialize) =>
        /\ arg.serializer = "Value" => res.ok
        /\ ~res.ok => (arg.serializer = "Broken" /\ res.err = SinkError)

C7_Witness ==
    /\ IsKeepAliveSerialize
    /\ arg.self = Until(0, "Hours")
    /\ arg.serializer = "Value"
    /\ res.ok

\* C8 as stated: decoding fails only with the schema-parse error, and only
\* when the wire value is a string that is neither "json" nor a parseable
\* schema document; no other input makes the decoder fail.
C8_OnlySchemaParseErrors ==
    (IsFormatDeserialize /\ ~res.ok) =>
        /\ res.err.kind = "custom"
        /\ arg.wire.t = "str"
        /\ arg.wire.s # <<"j", "s", "o", "n">>
        /\ ~from_str_RootSchema(arg.wire.s).ok

\* C8, amended: decoding fails in exactly two cases: the wire value is not
\* a string, and the failure is the deserializer's type error, raised
\* before any parsing; or it is a string that is neither "json" nor a
\* parseable schema document, and the failure is the schema-parse error.
C8_FailsOnNonStringOrUnparseable ==
    IsFormatDeserialize =>
        LET nonString == arg.wire.t # "str"
            unparseable == /\ arg.wire.t = "str"
                           /\ arg.wire.s # <<"j", "s", "o", "n">>
                           /\ ~from_str_RootSchema(arg.wire.s).ok
        IN  /\ ~res.ok <=> (nonString \/ unparseable)
            /\ nonString => (~res.ok /\ res.err.kind = "invalid_type")
            /\ unparseable => (~res.ok /\ res.err.kind = "custom")

C8_Witness ==
    /\ IsFormatDeserialize
    /\ arg.wire = JInt(0)
    /\ ~res.ok
    /\ res.err.kind = "invalid_type"

\* C9: decoding what encoding a StructuredJson value produced returns no
\* FormatType: the wire value is a map, the decoder reads a string, and the
\* decode is rejected before any schema is parsed.  Encode-then-decode
\* succeeds only for FormatType::Json.
C9_StructuredDoesNotRoundTrip ==
    (IsFormatDeserialize /\ origin # None) =>
        /\ origin.t = "StructuredJson" =>
            /\ arg.wire.t = "map"
            /\ ~res.ok
            /\ res.err.kind = "invalid_type"
        /\ res.ok => origin = Json

C9_Witness ==
    /\ IsFormatDeserialize
    /\ origin.t = "StructuredJson"
    /\ arg.wire = JMap(origin.structure.schema)
    /\ ~res.ok

\* C10: KeepAlive encoding is injective: no other KeepAlive value has the
\* wire value of the one encoded; Until{time: 0, unit: u} is the string "0"
\* followed by the symbol, not the integer 0 of UnloadOnCompletion.
C10_KeepAliveEncodingIsInjective ==
    (IsKeepAliveSerialize /\ res.ok) =>
        /\ \A other \in KeepAlive :
            KeepAliveSerialize(other, arg.serializer) = res => other = arg.self
        /\ (arg.self.t = "Until" /\ arg.self.time = 0) =>
            /\ res.val # [t |-> "int", n |-> 0]
            /\ res.val = JStr(<<"0">> \o SpecSymbol(arg.self.unit))

C10_Witness ==
    /\ IsKeepAliveSerialize
    /\ arg.self = Until(0, "Seconds")
    /\ res = Ok(JStr(<<"0", "s">>))

====
